---- MODULE Spec2Model ----
(***************************************************************************)
(* A model of saul.spectral.psd.PSD: construction of a PSD object from a   *)
(* batch of traces (__init__) and the plot request (plot).                 *)
(*                                                                         *)
(* Numbers.  Sampling rates are whole Hz.  win_dur is held in half         *)
(* seconds (win_dur2 = 2 * win_dur).  Frequencies and periods are          *)
(* fractions <<num, den>>.  Power is held in the log domain: a raw power   *)
(* value is ZERO (0.0) or an integer e standing for 10^(e/10); a value in  *)
(* dB is an integer, NINF (-inf) or NAN.                                   *)
(***************************************************************************)
EXTENDS Integers, Sequences, FiniteSets, TLC

\* ---------------------------------------------------------------- bounds
MaxBatch == 2      \* traces per batch
MaxBuilds == 2     \* PSD constructions in one process (SpecCache)
MaxPool == 3       \* pooled dB values (SpecRange)

\* ------------------------------------------------------- IEEE specials
NINF == -999999    \* -inf, 10*log10(0)
NAN == 999999      \* NaN
ZERO == -888888    \* raw power 0.0 (log domain has no image of it)

IsFinite(x) == x # NINF /\ x # NAN

\* ------------------------------------------------------------- inputs
Tr(id, ch, fs, data) == [id |-> id, channel |-> ch, fs |-> fs, data |-> data]

\* tr.stats.channel as its three characters; tr.data as a tuple of samples
Traces ==
    { Tr("AK.S1..BHZ", <<"B", "H", "Z">>, 1, <<1, 0>>),
      Tr("AK.S2..BHZ", <<"B", "H", "Z">>, 2, <<1, 0>>),
      Tr("AK.S3..HHZ", <<"H", "H", "Z">>, 2, <<0, 0>>),
      Tr("AK.I1..BDF", <<"B", "D", "F">>, 1, <<1, 0>>),
      Tr("AK.I2..BDF", <<"B", "D", "F">>, 2, <<1, 0, 10>>),
      Tr("AK.X1..LOG", <<"L", "O", "G">>, 1, <<0, 10>>) }

\* the seismic traces: pairwise they differ in the sampling interval only,
\* in the samples only, or in both
SeismicTraces == {tr \in Traces : tr.channel[2] = "H"}

RECURSIVE SeqsUpTo(_, _)
SeqsUpTo(S, n) ==
    IF n = 0 THEN {<<>>}
    ELSE LET R == SeqsUpTo(S, n - 1)
         IN R \cup {Append(r, x) : r \in {q \in R : Len(q) = n - 1}, x \in S}

Batches == SeqsUpTo(Traces, MaxBatch)
SeismicBatches == SeqsUpTo(SeismicTraces, MaxBatch)

Methods == {"welch", "multitaper"}
MethodArgs == Methods \cup {"periodogram"}
WinDurs2 == {1, 3, 5}              \* win_dur of 0.5 s, 1.5 s, 2.5 s
TimeBandwidths == {4, 5}           \* time_bandwidth_product
TaperCounts == {7}                 \* number_of_tapers

\* (method, win_dur, time_bandwidth_product, number_of_tapers); an argument
\* of the method not selected is ignored and left at its default
DefaultWinDur2 == 120
DefaultTimeBandwidth == 4
DefaultTaperCount == 7
BuildArgs ==
    {<<"welch", w2, DefaultTimeBandwidth, DefaultTaperCount>> : w2 \in WinDurs2}
    \cup {<<"multitaper", DefaultWinDur2, tbp, k>> :
             tbp \in TimeBandwidths, k \in TaperCounts}
    \cup {<<"periodogram", DefaultWinDur2, DefaultTimeBandwidth, DefaultTaperCount>>}
CacheBuildArgs == {a \in BuildArgs : a[1] # "welch" \/ a[2] = 3}

VARIABLES
    pc,          \* "idle" | "loop" | "built" | "failed": position of __init__
    builds,      \* constructions started in this process
    st,          \* self.st
    method,      \* self.method
    win_dur2,    \* self.win_dur (half seconds)
    nw,          \* self.time_bandwidth_product
    kspec,       \* self.number_of_tapers
    classified,  \* _data_kind has been called by this construction
    data_kind,   \* self.data_kind
    psd,         \* self.psd
    err,         \* the exception __init__ raised, "none" if none
    obj,         \* the caller holds the constructed PSD object
    estLog,      \* estimator invocations of this construction, in order
    cache,       \* the memo of _mtspec: key -> result object
    ncomp,       \* ncomp[a]: how often MTSpec has been computed on inputs a
    plotArgs,    \* arguments of the last plot request
    plotErr,     \* the exception that request raised
    fig,         \* what that request drew
    pool,        \* SpecRange: pooled dB values
    lim,         \* SpecRange: the selected (db_min, db_max)
    rdone        \* SpecRange: selection has run

vars == <<pc, builds, st, method, win_dur2, nw, kspec, classified, data_kind,
          psd, err, obj, estLog, cache, ncomp, plotArgs, plotErr, fig,
          pool, lim, rdone>>

buildVars == <<pc, builds, st, method, win_dur2, nw, kspec, classified,
               data_kind, psd, err, obj, estLog, cache, ncomp>>
plotVars == <<plotArgs, plotErr, fig>>
rangeVars == <<pool, lim, rdone>>

\* ------------------------------------------------------ small helpers
Max(a, b) == IF a >= b THEN a ELSE b
Min(a, b) == IF a <= b THEN a ELSE b

RECURSIVE Pow2(_)
Pow2(k) == IF k = 0 THEN 1 ELSE 2 * Pow2(k - 1)

\* int(np.ceil(np.log2(n))) for n >= 1
RECURSIVE CeilLog2(_)
CeilLog2(n) == IF n <= 1 THEN 0 ELSE 1 + CeilLog2((n + 1) \div 2)

\* ------------------------------------------------- data kind, reference
\* _data_kind: 'H' in second place is seismic, 'DF' in places 2-3 is
\* infrasound; the batch must be uniformly one of the two.
KindOf(tr) ==
    IF tr.channel[2] = "H" THEN "seismic"
    ELSE IF tr.channel[2] = "D" /\ tr.channel[3] = "F" THEN "infrasound"
    ELSE "unknown"

DataKind(s) ==
    LET kinds == {KindOf(s[j]) : j \in 1..Len(s)}
    IN IF kinds = {"seismic"} THEN "seismic"
       ELSE IF kinds = {"infrasound"} THEN "infrasound"
       ELSE "error"

\* 10*log10(db_ref_val**2) in whole dB: REFERENCE_VELOCITY = 1 m/s,
\* REFERENCE_PRESSURE = 20e-6 Pa
RefDb(kind) == IF kind = "infrasound" THEN -94 ELSE 0

\* ------------------------------------------- checks that open __init__
\* faulty variant: the stream is classified before it is counted
PreCheckClassifyFirst(m, s) ==
    IF m \notin Methods
    THEN [err |-> "InvalidMethod", classified |-> FALSE, kind |-> "none"]
    ELSE LET k == DataKind(s)
         IN IF k = "error"
            THEN [err |-> "MixedOrUnknownDataKind", classified |-> TRUE,
                  kind |-> "none"]
            ELSE IF Len(s) = 0
            THEN [err |-> "EmptyBatch", classified |-> TRUE, kind |-> "none"]
            ELSE [err |-> "none", classified |-> TRUE, kind |-> k]

\* lines 81-93: assert on method, assert on st.count(), then _data_kind
PreCheck(m, s) ==
    IF m \notin Methods
    THEN [err |-> "InvalidMethod", classified |-> FALSE, kind |-> "none"]
    ELSE IF Len(s) = 0
    THEN [err |-> "EmptyBatch", classified |-> FALSE, kind |-> "none"]
    ELSE LET k == DataKind(s)
         IN IF k = "error"
            THEN [err |-> "MixedOrUnknownDataKind", classified |-> TRUE,
                  kind |-> "none"]
            ELSE [err |-> "none", classified |-> TRUE, kind |-> k]

\* faulty variant: an exception inside __init__ is swallowed
PcAfterSwallowed(e) == "loop"

\* an exception leaves __init__; otherwise the loop over self.st goes on
PcAfter(e) == IF e = "none" THEN "loop" ELSE "failed"

\* ------------------------------------------------------ welch, line 103-107
\* nperseg = int(win_dur * fs)
Nperseg(w2, fs) == (w2 * fs) \div 2

\* faulty variant: the extra octave of padding is left out
NfftNoPad(nperseg) == Pow2(CeilLog2(nperseg))

\* nfft = np.power(2, int(np.ceil(np.log2(nperseg))) + 1)
Nfft(nperseg) == Pow2(CeilLog2(nperseg) + 1)

\* int(np.ceil(np.log2(0))) is int(-inf): OverflowError
NfftError(nperseg) == IF nperseg = 0 THEN "OverflowError" ELSE "none"

\* the segment scipy.signal.welch works with: nperseg above the input
\* length is replaced by the input length (with a warning)
WelchSegment(nperseg, npts) == Min(nperseg, npts)

\* Raw power the estimators find in a sample tuple, flat over the bins:
\* all-zero samples have zero power, an amplitude of 1 gives level 0, an
\* amplitude ten times larger a level 20 dB higher.
Amplitude(data) ==
    LET A == {IF data[j] < 0 THEN -data[j] ELSE data[j] : j \in 1..Len(data)}
    IN CHOOSE a \in A : \A b \in A : b <= a

PowerLevel(data) ==
    LET a == Amplitude(data)
    IN IF a = 0 THEN ZERO ELSE IF a < 10 THEN 0 ELSE 20

\* rfft bins 0 .. nfft/2 with f[k] = k*fs/nfft
Spectrum(data, fs, nfft) ==
    [f |-> [k \in 1..(nfft \div 2 + 1) |-> <<(k - 1) * fs, nfft>>],
     pxx |-> [k \in 1..(nfft \div 2 + 1) |-> PowerLevel(data)]]

Welch(data, fs, nperseg, nfft) == Spectrum(data, fs, nfft)

\* ------------------------------------------------- multitaper, line 108-117
Smooth11(n) ==
    LET RECURSIVE Strip(_, _)
        Strip(m, p) == IF m % p = 0 THEN Strip(m \div p, p) ELSE m
    IN Strip(Strip(Strip(Strip(Strip(n, 2), 3), 5), 7), 11) = 1

\* scipy.fft.next_fast_len: the least 11-smooth length >= n
RECURSIVE NextFastLen(_)
NextFastLen(n) == IF n <= 1 THEN 1 ELSE IF Smooth11(n) THEN n ELSE NextFastLen(n + 1)

\* faulty variant: the samples are not passed on (a zero tuple of the same length is)
MtInputsNoData(tr, tbp, k) ==
    [data |-> [j \in 1..Len(tr.data) |-> 0], nw |-> tbp, kspec |-> k,
     dt |-> <<1, tr.fs>>, nfft |-> NextFastLen(Len(tr.data))]

\* the arguments __init__ hands to _mtspec
MtInputs(tr, tbp, k) ==
    [data |-> tr.data, nw |-> tbp, kspec |-> k, dt |-> <<1, tr.fs>>,
     nfft |-> NextFastLen(Len(tr.data))]

\* the memo of _mtspec keys on all of its arguments, compared by value
MemoKey(args) == <<args.data, args.nw, args.kspec, args.dt, args.nfft>>

\* mtspec.rspec() of the object computed from args
RSpec(args) == Spectrum(args.data, args.dt[2], args.nfft)

\* ------------------------------------------------ normalise, line 118-121
Tail1(s) == [k \in 1..(Len(s) - 1) |-> s[k + 1]]

\* 10 * np.log10(pxx / db_ref_val**2)
ToDb(p, kind) == IF p = ZERO THEN NINF ELSE p - RefDb(kind)

\* a multitaper result object: the inputs it was computed on, and which
\* computation on those inputs made it
NoObj == [args |-> [data |-> <<>>, nw |-> 0, kspec |-> 0, dt |-> <<1, 1>>,
                    nfft |-> 0],
          gen |-> 0]

\* (f[1:], pxx_db); src and obj are ghosts: the trace the pair was made
\* from and the multitaper object it was read from (NoObj: none)
Normalize(sp, kind, src, o) ==
    [f |-> Tail1(sp.f),
     pxx_db |-> [k \in 1..(Len(sp.pxx) - 1) |-> ToDb(sp.pxx[k + 1], kind)],
     src |-> src, obj |-> o]

\* faulty variant: the new pair is put in front
AppendPsdFront(p, e) == <<e>> \o p

\* self.psd.append((f, pxx_db))
AppendPsd(p, e) == Append(p, e)

\* --------------------------------------------------------------- __init__
NoArgs == [db_lim |-> [mode |-> "none", lim |-> <<0, 0>>], use_period |-> FALSE,
           log_x |-> FALSE, show_noise_models |-> FALSE,
           infra_noise_model |-> "none"]
NoFig == [drawn |-> FALSE, lines |-> <<>>, xscale |-> "linear",
          xlim |-> <<<<0, 1>>, <<0, 1>>>>, ylim |-> [auto |-> TRUE, lim |-> <<0, 0>>],
          xlabel |-> ""]

InitBuild ==
    /\ pc = "idle" /\ builds = 0 /\ st = <<>> /\ method = "none"
    /\ win_dur2 = 0 /\ nw = 0 /\ kspec = 0
    /\ classified = FALSE /\ data_kind = "none"
    /\ psd = <<>> /\ err = "none" /\ obj = FALSE /\ estLog = <<>>
    /\ cache = <<>> /\ ncomp = <<>>
InitPlot == plotArgs = NoArgs /\ plotErr = "none" /\ fig = NoFig
InitRange == pool = <<>> /\ lim = <<0, 0>> /\ rdone = FALSE

\* PSD(tr_or_st, method, win_dur, time_bandwidth_product, number_of_tapers)
\* up to the loop: lines 81-101
Begin(maxb, s, m, w2, tbp, k) ==
    /\ pc \in {"idle", "built", "failed"}
    /\ builds < maxb
    /\ builds' = builds + 1
    /\ LET c == PreCheck(m, s)
       IN /\ err' = c.err
          /\ classified' = c.classified
          /\ data_kind' = c.kind
          /\ pc' = PcAfter(c.err)
    /\ st' = s /\ method' = m
    /\ win_dur2' = (IF m = "welch" THEN w2 ELSE 0)
    /\ nw' = (IF m = "multitaper" THEN tbp ELSE 0)
    /\ kspec' = (IF m = "multitaper" THEN k ELSE 0)
    /\ psd' = <<>> /\ obj' = FALSE /\ estLog' = <<>>
    /\ plotArgs' = NoArgs /\ plotErr' = "none" /\ fig' = NoFig
    /\ UNCHANGED <<cache, ncomp, rangeVars>>

Cur == Len(psd) + 1

LogEntry(m, np, seg, nf, n, h) ==
    [m |-> m, src |-> Cur, nperseg |-> np, seg |-> seg, nfft |-> nf,
     npts |-> n, hit |-> h]

\* one pass of the loop body, method == 'welch'
EstimateWelch ==
    /\ pc = "loop" /\ method = "welch" /\ Cur <= Len(st)
    /\ LET tr == st[Cur]
           nperseg == Nperseg(win_dur2, tr.fs)
           e == NfftError(nperseg)
       IN IF e # "none"
          THEN /\ err' = e
               /\ pc' = PcAfter(e)
               /\ UNCHANGED <<psd, estLog>>
          ELSE LET nfft == Nfft(nperseg)
                   sp == Welch(tr.data, tr.fs, nperseg, nfft)
               IN /\ psd' = AppendPsd(psd, Normalize(sp, data_kind, Cur, NoObj))
                  /\ estLog' = Append(estLog,
                        LogEntry("welch", nperseg,
                                 WelchSegment(nperseg, Len(tr.data)), nfft,
                                 Len(tr.data), FALSE))
                  /\ UNCHANGED <<pc, err>>
    /\ UNCHANGED <<builds, st, method, win_dur2, nw, kspec, classified,
                   data_kind, obj, cache, ncomp, plotVars, rangeVars>>

\* one pass of the loop body, method == 'multitaper', key not yet in the memo
EstimateMultitaperMiss ==
    /\ pc = "loop" /\ method = "multitaper" /\ Cur <= Len(st)
    /\ LET tr == st[Cur]
           args == MtInputs(tr, nw, kspec)
           key == MemoKey(args)
           n == IF args \in DOMAIN ncomp THEN ncomp[args] + 1 ELSE 1
           o == [args |-> args, gen |-> n]
       IN /\ key \notin DOMAIN cache
          /\ ncomp' = [a \in DOMAIN ncomp \cup {args} |->
                          IF a = args THEN n ELSE ncomp[a]]
          /\ cache' = [k \in DOMAIN cache \cup {key} |->
                          IF k = key THEN o ELSE cache[k]]
          /\ psd' = AppendPsd(psd, Normalize(RSpec(o.args), data_kind, Cur, o))
          /\ estLog' = Append(estLog,
                LogEntry("multitaper", 0, 0, args.nfft, Len(tr.data), FALSE))
    /\ UNCHANGED <<pc, err, builds, st, method, win_dur2, nw, kspec, classified,
                   data_kind, obj, plotVars, rangeVars>>

\* the same with the key in the memo: the stored object is returned
EstimateMultitaperHit ==
    /\ pc = "loop" /\ method = "multitaper" /\ Cur <= Len(st)
    /\ LET tr == st[Cur]
           args == MtInputs(tr, nw, kspec)
           key == MemoKey(args)
       IN /\ key \in DOMAIN cache
          /\ psd' = AppendPsd(psd,
                Normalize(RSpec(cache[key].args), data_kind, Cur, cache[key]))
          /\ estLog' = Append(estLog,
                LogEntry("multitaper", 0, 0, args.nfft, Len(tr.data), TRUE))
    /\ UNCHANGED <<pc, err, builds, st, method, win_dur2, nw, kspec, classified,
                   data_kind, obj, cache, ncomp, plotVars, rangeVars>>

\* the loop is over: __init__ returns and the caller has the object
Return ==
    /\ pc = "loop" /\ Cur > Len(st)
    /\ pc' = "built" /\ obj' = TRUE
    /\ UNCHANGED <<builds, st, method, win_dur2, nw, kspec, classified,
                   data_kind, psd, err, estLog, cache, ncomp, plotVars, rangeVars>>

\* ------------------------------------------------- smart dB limits, 199-205
RECURSIVE Insert(_, _)
Insert(s, x) ==
    IF s = <<>> THEN <<x>>
    ELSE IF x <= Head(s) THEN <<x>> \o s
    ELSE <<Head(s)>> \o Insert(Tail(s), x)

\* ascending, -inf first and NaN last, as numpy sorts
RECURSIVE Sort(_)
Sort(s) == IF s = <<>> THEN <<>> ELSE Insert(Sort(Tail(s)), Head(s))

RECURSIVE Concat(_)
Concat(ss) == IF ss = <<>> THEN <<>> ELSE Head(ss) \o Concat(Tail(ss))

HasNan(a) == \E j \in 1..Len(a) : a[j] = NAN

\* 100 * np.percentile(a, 5), linear interpolation between the two
\* neighbours of index 0.05*(n-1); NAN when the result is not finite
\* (a NaN anywhere, or a -inf neighbour: -inf + inf*g)
Percentile5x100(a) ==
    LET s == Sort(a)
        n == Len(a)
        pos == 5 * (n - 1)
        lo == pos \div 100 + 1
        hi == Min(lo + 1, n)
        g == pos % 100
    IN IF HasNan(a) \/ ~IsFinite(s[lo]) \/ ~IsFinite(s[hi]) THEN NAN
       ELSE 100 * s[lo] + g * (s[hi] - s[lo])

\* np.max(a)
MaxDb(a) ==
    IF HasNan(a) THEN NAN
    ELSE CHOOSE x \in {a[j] : j \in 1..Len(a)} : \A j \in 1..Len(a) : a[j] <= x

CeilDiv(a, b) == -((-a) \div b)

\* faulty variant: rounds down
FloorTo10(num, den) ==
    IF ~IsFinite(num) THEN num ELSE 10 * (num \div (10 * den))

\* np.ceil(x / 10) * 10 for x = num/den; -inf and NaN stay what they are
CeilTo10(num, den) ==
    IF ~IsFinite(num) THEN num ELSE 10 * CeilDiv(num, 10 * den)

\* db_lim = np.ceil(db_min / 10) * 10, np.ceil(db_max / 10) * 10
SmartLim(a) == <<CeilTo10(Percentile5x100(a), 100), CeilTo10(MaxDb(a), 1)>>

\* ------------------------------------------------------------------- plot
CYCLES_PER_WINDOW == 2

FracLeq(a, b) == a[1] * b[2] <= b[1] * a[2]
FracMin(S) == CHOOSE a \in S : \A b \in S : FracLeq(a, b)
Inv(a) == <<a[2], a[1]>>

\* faulty variant: the two assertions in the other order
PlotCheckNoiseFirst(a) ==
    IF a.infra_noise_model \notin {"ak", "idc"} THEN "InvalidNoiseModelChoice"
    ELSE IF a.use_period /\ ~a.log_x THEN "InvalidAxisConfiguration"
    ELSE "none"

\* lines 144-148
PlotCheck(a) ==
    IF a.use_period /\ ~a.log_x THEN "InvalidAxisConfiguration"
    ELSE IF a.infra_noise_model \notin {"ak", "idc"} THEN "InvalidNoiseModelChoice"
    ELSE "none"

XKind(a) == IF a.use_period THEN "period" ELSE "frequency"

\* lines 150-151: one line per (trace, psd) pair, labelled tr.id
TraceLines(a, s, p) ==
    [j \in 1..Min(Len(s), Len(p)) |->
        [label |-> s[j].id, x |-> XKind(a), y |-> p[j].pxx_db, shift |-> 0]]

\* lines 155-169: how many reference curves, and by how much they are moved
NoiseCount(a, kind) ==
    IF ~a.show_noise_models THEN 0
    ELSE IF kind = "infrasound" /\ a.infra_noise_model = "ak" THEN 3
    ELSE 2

NoiseLines(a, kind) ==
    [j \in 1..NoiseCount(a, kind) |->
        [label |-> IF j = 1 THEN "Noise model" ELSE "", x |-> XKind(a),
         y |-> <<>>,
         shift |-> IF kind = "infrasound" THEN 0 - RefDb(kind) ELSE 0]]

\* faulty variant: the traces are drawn before the arguments are checked
LinesDrawnFirst(e, a, s, p, kind) ==
    IF e # "none" THEN TraceLines(a, s, p)
    ELSE TraceLines(a, s, p) \o NoiseLines(a, kind)

\* the lines on the axes when plot() ends
LinesDrawn(e, a, s, p, kind) ==
    IF e # "none" THEN <<>> ELSE TraceLines(a, s, p) \o NoiseLines(a, kind)

\* lines 187-190
Fmin(m, w2, p) ==
    IF m = "welch" THEN <<2 * CYCLES_PER_WINDOW, w2>>
    ELSE FracMin(UNION {{p[j].f[k] : k \in 1..Len(p[j].f)} : j \in 1..Len(p)})

\* line 191
Fmax(s) ==
    LET R == {s[j].fs : j \in 1..Len(s)}
    IN <<CHOOSE r \in R : \A q \in R : q <= r, 2>>

\* lines 192-197
XLim(a, m, w2, s, p) ==
    IF a.use_period THEN <<Inv(Fmax(s)), Inv(Fmin(m, w2, p))>>
    ELSE <<Fmin(m, w2, p), Fmax(s)>>

\* lines 199-206
YLim(a, p) ==
    IF a.db_lim.mode = "smart"
    THEN [auto |-> FALSE,
          lim |-> SmartLim(Concat([j \in 1..Len(p) |-> p[j].pxx_db]))]
    ELSE IF a.db_lim.mode = "explicit" THEN [auto |-> FALSE, lim |-> a.db_lim.lim]
    ELSE [auto |-> TRUE, lim |-> <<0, 0>>]

DbLims == {[mode |-> "smart", lim |-> <<0, 0>>],
           [mode |-> "none", lim |-> <<0, 0>>],
           [mode |-> "explicit", lim |-> <<-20, 20>>]}
NoiseChoices == {"ak", "idc", "nlnm"}

PlotArgSets ==
    [db_lim : DbLims, use_period : BOOLEAN, log_x : BOOLEAN,
     show_noise_models : BOOLEAN, infra_noise_model : NoiseChoices]

\* PSD.plot(db_lim, use_period, log_x, show_noise_models, infra_noise_model)
Plot(a) ==
    /\ pc = "built" /\ obj
    /\ plotArgs' = a
    /\ LET e == PlotCheck(a)
       IN /\ plotErr' = e
          /\ fig' = IF e # "none"
                    THEN [NoFig EXCEPT !.lines = LinesDrawn(e, a, st, psd, data_kind)]
                    ELSE [drawn |-> TRUE,
                          lines |-> LinesDrawn(e, a, st, psd, data_kind),
                          xscale |-> IF a.log_x THEN "log" ELSE "linear",
                          xlim |-> XLim(a, method, win_dur2, st, psd),
                          ylim |-> YLim(a, psd),
                          xlabel |-> IF a.use_period THEN "Period (s)"
                                     ELSE "Frequency (Hz)"]
    /\ UNCHANGED <<buildVars, rangeVars>>

\* ------------------------------------------------ range selection alone
DbValues == {-37, -20, -12, 0, 5, 10, NINF, NAN}

Pools == SeqsUpTo(DbValues, MaxPool) \ {<<>>}

SelectRange ==
    /\ ~rdone
    /\ lim' = SmartLim(pool)
    /\ rdone' = TRUE
    /\ UNCHANGED <<pool, buildVars, plotVars>>

\* ------------------------------------------------------- specifications
Init == InitBuild /\ InitPlot /\ InitRange

\* one PSD object: construction, then any number of plot requests
Next ==
    \/ \E s \in Batches, a \in BuildArgs : Begin(1, s, a[1], a[2], a[3], a[4])
    \/ EstimateWelch
    \/ EstimateMultitaperMiss
    \/ EstimateMultitaperHit
    \/ Return
    \/ \E a \in PlotArgSets : Plot(a)

Spec == Init /\ [][Next]_vars

\* several constructions in one process, sharing the memo of _mtspec
NextCache ==
    \/ \E s \in SeismicBatches, a \in CacheBuildArgs :
            Begin(MaxBuilds, s, a[1], a[2], a[3], a[4])
    \/ EstimateWelch
    \/ EstimateMultitaperMiss
    \/ EstimateMultitaperHit
    \/ Return

SpecCache == Init /\ [][NextCache]_vars

\* the smart limits of every pool of dB values
InitRangeOnly == InitBuild /\ InitPlot /\ pool \in Pools /\ lim = <<0, 0>> /\ rdone = FALSE

NextRange == SelectRange

SpecRange == InitRangeOnly /\ [][NextRange]_vars

\* ------------------------------------------------------------ properties
Plotted == plotArgs # NoArgs
BadAxis == plotArgs.use_period /\ ~plotArgs.log_x
BadNoise == plotArgs.infra_noise_model \notin {"ak", "idc"}
ConfigErrors == {"InvalidAxisConfiguration", "InvalidNoiseModelChoice"}
NothingDrawn == ~fig.drawn /\ fig.lines = <<>>
AllFinite(a) == \A j \in 1..Len(a) : IsFinite(a[j])
Mult10(x) == x % 10 = 0
PooledDb == Concat([j \in 1..Len(psd) |-> psd[j].pxx_db])

\* C1: a constructed PSD holds exactly one (frequency, power-in-dB) pair
\* per trace of the batch, and the i-th pair is the one made from the i-th
\* trace, under either method.
C1_OnePairPerTraceInOrder ==
    /\ \A j \in 1..Len(psd) : psd[j].src = j /\ j <= Len(st)
    /\ obj => /\ method \in Methods
              /\ Len(st) >= 1
              /\ Len(psd) = Len(st)
              /\ \A j \in 1..Len(st) : psd[j].f[1][1] = st[j].fs

C1_Witness ==
    /\ obj /\ Len(psd) = 2 /\ st[1] # st[2]
    /\ psd[1] # psd[2]

\* C2 as stated: in smart mode both limits are multiples of 10, the lower
\* is at most the 5th percentile of the pooled values and the upper is at
\* least their maximum.
C2_LowerBelowPercentile ==
    (rdone /\ AllFinite(pool)) =>
        /\ Mult10(lim[1]) /\ Mult10(lim[2])
        /\ 100 * lim[1] <= Percentile5x100(pool)
        /\ lim[2] >= MaxDb(pool)

\* C2 amended: for finite pooled values both limits are multiples of 10,
\* each the least multiple of 10 that is not below its statistic: the
\* lower limit is at least the 5th percentile and less than 10 above it,
\* the upper limit is at least the maximum and less than 10 above it.
C2_BothLimitsCeiled ==
    (rdone /\ AllFinite(pool)) =>
        /\ Mult10(lim[1]) /\ Mult10(lim[2])
        /\ 100 * lim[1] >= Percentile5x100(pool)
        /\ 100 * (lim[1] - 10) < Percentile5x100(pool)
        /\ lim[2] >= MaxDb(pool)
        /\ lim[2] - 10 < MaxDb(pool)

C2_Witness ==
    /\ rdone /\ AllFinite(pool) /\ Len(pool) = 3
    /\ 100 * lim[1] > Percentile5x100(pool)
    /\ lim[2] > MaxDb(pool)
    /\ lim[1] < lim[2]

\* C3: constructing from a batch of zero traces fails with the empty-batch
\* error, before the data kind is classified and before any estimator is
\* called (method being one of the two the constructor accepts; with any
\* method an empty batch is neither classified nor estimated).
C3_EmptyBatchRejectedFirst ==
    (builds > 0 /\ Len(st) = 0) =>
        /\ pc = "failed" /\ ~obj
        /\ ~classified
        /\ estLog = <<>> /\ psd = <<>>
        /\ method \in Methods => err = "EmptyBatch"

C3_Witness ==
    /\ builds > 0 /\ Len(st) = 0 /\ method = "multitaper"
    /\ err = "EmptyBatch" /\ pc = "failed"

\* C4 as stated: whatever the other arguments, use_period with a linear
\* x axis fails with the axis error and a noise-model choice outside the
\* two allowed fails with the noise-model error, nothing being drawn.
C4_EachErrorAlways ==
    Plotted =>
        /\ BadAxis => (plotErr = "InvalidAxisConfiguration" /\ NothingDrawn)
        /\ BadNoise => (plotErr = "InvalidNoiseModelChoice" /\ NothingDrawn)

\* C4 amended: either fault rejects the request before anything is drawn,
\* whatever the other arguments; the axis fault is reported as the axis
\* error, and the noise-model fault as the noise-model error unless the
\* axis fault is present too, which is checked first.
C4_RejectedAxisFirst ==
    Plotted =>
        /\ BadAxis => (plotErr = "InvalidAxisConfiguration" /\ NothingDrawn)
        /\ (BadNoise /\ ~BadAxis) =>
              (plotErr = "InvalidNoiseModelChoice" /\ NothingDrawn)
        /\ (~BadNoise /\ ~BadAxis) => (plotErr = "none" /\ fig.drawn)

C4_Witness ==
    /\ Plotted /\ BadNoise /\ ~BadAxis
    /\ ~plotArgs.show_noise_models /\ data_kind = "seismic"
    /\ plotErr = "InvalidNoiseModelChoice"

\* C5 as stated: whenever an axis or noise-model configuration error is
\* reported, no estimator call has preceded it.
C5_ErrorBeforeEstimation ==
    plotErr \in ConfigErrors => estLog = <<>>

\* C5 amended: an axis or noise-model configuration error is reported at
\* the start of the plot request, before anything is drawn; by then the
\* constructor has already estimated every trace of the batch.
C5_ErrorAfterEstimationBeforeDrawing ==
    plotErr \in ConfigErrors =>
        /\ obj /\ pc = "built"
        /\ Len(st) >= 1
        /\ Len(estLog) = Len(st) /\ Len(psd) = Len(st)
        /\ fig.lines = <<>>

C5_Witness ==
    /\ plotErr = "InvalidAxisConfiguration"
    /\ Len(estLog) = 2 /\ method = "welch"

ShortTrace(j) == Len(st[j].data) < Nperseg(win_dur2, st[j].fs)

\* C6: a welch trace with fewer samples than one segment of
\* int(win_dur * fs) samples makes construction fail with the
\* insufficient-samples error: no pair is made from it and no PSD results.
C6_ShortTraceRejected ==
    method = "welch" =>
        /\ \A j \in 1..Len(psd) : ~ShortTrace(j)
        /\ \A j \in 1..Len(estLog) : estLog[j].seg = estLog[j].nperseg

\* C7: the multitaper computation runs at most once per distinct key
\* (samples, sampling interval, time-bandwidth product, taper count, FFT
\* length); every multitaper pair is read from the one object computed
\* from exactly its own trace's key, so equal keys share an object and
\* different keys never do; welch neither reads nor writes the memo.
C7_State ==
    /\ \A a \in DOMAIN ncomp : ncomp[a] = 1
    /\ \A k \in DOMAIN cache :
          /\ MemoKey(cache[k].args) = k
          /\ cache[k].args \in DOMAIN ncomp
          /\ cache[k].gen = 1
    /\ method = "multitaper" =>
          \A j \in 1..Len(psd) :
             /\ psd[j].obj.args.data = st[j].data
             /\ psd[j].obj.args.dt = <<1, st[j].fs>>
             /\ psd[j].obj.args.nw = nw
             /\ psd[j].obj.args.kspec = kspec
             /\ psd[j].obj.args.nfft = NextFastLen(Len(st[j].data))
             /\ psd[j].obj.gen = 1
             /\ MemoKey(psd[j].obj.args) \in DOMAIN cache
             /\ cache[MemoKey(psd[j].obj.args)] = psd[j].obj
             /\ \A i \in 1..(j - 1) :
                   (estLog[j].hit \/ psd[i].obj # psd[j].obj)
                   /\ (st[i].data = st[j].data /\ st[i].fs = st[j].fs
                         => psd[i].obj = psd[j].obj /\ estLog[j].hit)
    /\ method = "welch" =>
          \A j \in 1..Len(psd) : psd[j].obj = NoObj /\ ~estLog[j].hit

FailsAt(j) == NfftError(Nperseg(win_dur2, st[j].fs)) # "none"

\* C8: construction is all-or-nothing: when classification fails or
\* estimation fails on the k-th trace, construction stops there, the
\* estimator has run for traces 1..k-1 only, and the caller gets no PSD.
C8_AllOrNothing ==
    /\ err # "none" => (pc = "failed" /\ ~obj)
    /\ pc = "failed" => (err # "none" /\ ~obj)
    /\ obj => (err = "none" /\ pc = "built")
    /\ err \in {"InvalidMethod", "EmptyBatch", "MixedOrUnknownDataKind"}
          => (estLog = <<>> /\ psd = <<>>)
    /\ err = "OverflowError" =>
          /\ Cur <= Len(st) /\ FailsAt(Cur)
          /\ \A j \in 1..(Cur - 1) : ~FailsAt(j)
          /\ Len(estLog) = Cur - 1
          /\ \A j \in 1..Len(estLog) : estLog[j].src < Cur

C8_Witness ==
    /\ err = "OverflowError" /\ pc = "failed" /\ ~obj
    /\ Len(psd) = 1 /\ Len(st) = 2

\* C9: when the pooled dB values hold -inf (or NaN) next to finite values,
\* smart range selection leaves the non-finite ones out, so both selected
\* limits are finite.
C9_NonFiniteTolerated ==
    (fig.drawn /\ plotArgs.db_lim.mode = "smart"
       /\ (\E j \in 1..Len(PooledDb) : IsFinite(PooledDb[j]))
       /\ (\E j \in 1..Len(PooledDb) : ~IsFinite(PooledDb[j])))
    => (IsFinite(fig.ylim.lim[1]) /\ IsFinite(fig.ylim.lim[2]))

Powers2 == {Pow2(k) : k \in 0..12}
LeastPow2(n) == CHOOSE q \in Powers2 : q >= n /\ \A r \in Powers2 : r >= n => q <= r

\* C10: for welch with nperseg = int(win_dur * fs) >= 1, nfft is twice the
\* least power of two >= nperseg: a power of two with
\* 2*nperseg <= nfft < 4*nperseg, equal to 2*nperseg exactly when nperseg
\* is itself a power of two.
C10_NfftTwiceNextPow2 ==
    \A j \in 1..Len(estLog) :
        estLog[j].m = "welch" =>
            LET n == estLog[j].nperseg
                f == estLog[j].nfft
            IN /\ n = Nperseg(win_dur2, st[j].fs) /\ n >= 1
               /\ f = 2 * LeastPow2(n)
               /\ f \in Powers2
               /\ 2 * n <= f /\ f < 4 * n
               /\ (f = 2 * n) <=> (n \in Powers2)

C10_Witness ==
    /\ Len(estLog) = 2
    /\ estLog[1].m = "welch" /\ estLog[1].nperseg = 3 /\ estLog[1].nfft = 8
    /\ estLog[2].nperseg = 1 /\ estLog[2].nfft = 2

====
